---------------------------- MODULE Spec2Model ----------------------------
(***************************************************************************)
(* VProxySuite worker: the execution orchestrator (core/runner.py), the    *)
(* plugin registry (plugins/base.py) and the config parser                 *)
(* (core/parsers.py), as one state machine.                                *)
(*                                                                         *)
(* One task is followed from the payload handed to execute_request_async   *)
(* to the response it returns or the exception it raises.  Strings the     *)
(* code only compares or copies are kept as strings; a raw config string   *)
(* is the record of the parts yarl / base64+json split it into.            *)
(***************************************************************************)
EXTENDS Integers, Sequences, FiniteSets, TLC

VARIABLES
    pc,          \* where execute_request_async is: start, gather, done, raised
    payload,     \* the dict handed to execute_request_async
    ENABLE_SECURITY_ADVANCED,  \* settings.ENABLE_SECURITY_ADVANCED (read from the environment)
    REGISTRY,    \* plugins.base._REGISTRY: kind -> factory
    parsed,      \* whether parse_config has been called for this task
    effective_tests,  \* the surviving kinds, in order, once the gate has run
    tasks,       \* one entry per coroutine handed to asyncio.gather
    sem,         \* free slots of asyncio.Semaphore(MAX_PARALLEL_PLUGINS)
    response,    \* the TaskResponse mapping returned (meaningful when pc = "done")
    raised,      \* the exception that left execute_request_async (pc = "raised")
    regFirst,    \* for each kind, the factory of its first register_plugin call
    regCall,     \* the last call into the registry and how it ended
    rawIn,       \* the text handed to parse_config on its own
    parseOut,    \* what parse_config made of rawIn
    cmds         \* the run_cmd calls in flight, one per plugin body that made one

\* the orchestrator's own state
runnerVars == <<pc, payload, ENABLE_SECURITY_ADVANCED, parsed,
                effective_tests, tasks, sem, response, raised>>

\* the state of the registry calls, of the parser called on its own, and of
\* the sandboxed commands
others == <<regFirst, regCall, rawIn, parseOut, cmds>>

vars == <<pc, payload, ENABLE_SECURITY_ADVANCED, REGISTRY, parsed,
          effective_tests, tasks, sem, response, raised,
          regFirst, regCall, rawIn, parseOut, cmds>>

-----------------------------------------------------------------------------
(* Kinds and settings *)

KIND_PERFORMANCE == "performance"
KIND_STABILITY == "stability"
KIND_COMPLIANCE == "compliance"
KIND_SECURITY_BASIC == "security_basic"
KIND_SECURITY_ADV == "security_adv"

CanonicalKinds ==
    {KIND_PERFORMANCE, KIND_STABILITY, KIND_COMPLIANCE, KIND_SECURITY_BASIC,
     KIND_SECURITY_ADV}

\* A kind no plugin registers (tests is list[str]: any string may be asked for).
BogusKind == "bogus_kind"

Kinds == CanonicalKinds \cup {BogusKind}

MAX_PARALLEL_PLUGINS == 4

-----------------------------------------------------------------------------
(* Sequence helpers *)

Range(s) == {s[i] : i \in 1..Len(s)}

RECURSIVE SelectSeqBy(_, _)
\* [x for x in s if x \in keep]
SelectSeqBy(s, keep) ==
    IF s = <<>> THEN <<>>
    ELSE IF Head(s) \in keep
         THEN <<Head(s)>> \o SelectSeqBy(Tail(s), keep)
         ELSE SelectSeqBy(Tail(s), keep)

-----------------------------------------------------------------------------
(* core/parsers.py *)
(* A raw config string is the record of its parts:                         *)
(*   pad      surrounding whitespace (removed by str.strip)                *)
(*   scheme   the text before "://", "" for the empty text                 *)
(*   id       VLESS user-info / VMESS "id"                                 *)
(*   host     VLESS authority host / VMESS "add"                           *)
(*   port     the port text, "" when absent                                *)
(*   security VLESS ?security= / VMESS "tls"                               *)
(*   network  VLESS ?type= / VMESS "net"                                   *)
(*   path     VLESS ?path= / VMESS "path"                                  *)
(*   b64json  VMESS: the payload is base64 of a JSON object                *)

GoodUuid == "11111111-2222-3333-4444-555555555555"
ZeroUuid == "00000000-0000-0000-0000-000000000000"

\* uuid.UUID(text) succeeds exactly on these texts.
UuidTexts == {GoodUuid, ZeroUuid}

\* str.lower on the scheme prefixes that occur.
Lower(s) ==
    CASE s = "VLESS" -> "vless"
      [] s = "VMESS" -> "vmess"
      [] OTHER -> s

\* int(str(port).strip()) for the port texts that occur; the others are not numbers.
PortValue ==
    ("0" :> 0) @@ ("1" :> 1) @@ ("443" :> 443) @@ ("65535" :> 65535) @@
    ("65536" :> 65536)

IPv4Hosts == {"1.2.3.4"}
IPv6Hosts == {"[::1]"}
\* the hosts idna.encode(host, uts46=True) accepts
IdnaHosts == {"example.com", "localhost"}

NoConfig ==
    [type |-> "", id |-> "", host |-> "", port |-> 0, security |-> "",
     network |-> "", path |-> ""]

ParseFail(msg) == [ok |-> FALSE, error |-> msg, config |-> NoConfig, warnings |-> <<>>]
ParseOk(cfg, ws) == [ok |-> TRUE, error |-> "", config |-> cfg, warnings |-> ws]

\* _validate_hostname: "" when the host is accepted, the error text otherwise
validate_hostname(host) ==
    IF host \in IPv4Hosts \cup IPv6Hosts THEN ""
    ELSE IF host \notin IdnaHosts THEN "invalid hostname"
    ELSE ""

\* the range test written 0 <= p <= 65535
validate_port_from_zero(port) ==
    IF port \notin DOMAIN PortValue THEN "port must be int"
    ELSE IF ~(0 <= PortValue[port] /\ PortValue[port] <= 65535) THEN "port out of range"
    ELSE ""

\* _validate_port: "" when the port is accepted, the error text otherwise
validate_port(port) ==
    IF port \notin DOMAIN PortValue THEN "port must be int"
    ELSE IF ~(1 <= PortValue[port] /\ PortValue[port] <= 65535) THEN "port out of range"
    ELSE ""

WarnVlessNoTls == "VLESS without TLS/REALITY; may leak metadata."
WarnVmessNoTls == "VMESS without TLS; traffic may be observable."
WarnWsNoPath == "WebSocket selected but path is empty."

\* the advisory warnings both parsers append, in their order
SanityWarnings(noTlsText, security, network, path) ==
    (IF security \in {"", "none", "insecure"} THEN <<noTlsText>> ELSE <<>>)
    \o (IF network = "ws" /\ path = "" THEN <<WarnWsNoPath>> ELSE <<>>)

parse_vless(raw) ==
    \* URL(uri) itself rejects a port that is not a number in 0..65535
    IF raw.port # "" /\ (raw.port \notin DOMAIN PortValue \/ PortValue[raw.port] > 65535)
    THEN ParseFail("invalid url port")
    ELSE IF Lower(raw.scheme) # "vless" THEN ParseFail("not a vless uri")
    ELSE IF raw.id \notin UuidTexts THEN ParseFail("invalid vless uuid")
    ELSE IF validate_hostname(raw.host) # "" THEN ParseFail(validate_hostname(raw.host))
    \* url.port or 0
    ELSE IF validate_port(IF raw.port = "" THEN "0" ELSE raw.port) # ""
         THEN ParseFail(validate_port(IF raw.port = "" THEN "0" ELSE raw.port))
    ELSE ParseOk([type |-> "vless", id |-> raw.id, host |-> raw.host,
                  port |-> PortValue[raw.port], security |-> raw.security,
                  network |-> raw.network, path |-> raw.path],
                 SanityWarnings(WarnVlessNoTls, raw.security, raw.network, raw.path))

parse_vmess(raw) ==
    IF Lower(raw.scheme) # "vmess" THEN ParseFail("not a vmess uri")
    ELSE IF ~raw.b64json THEN ParseFail("invalid vmess base64/json")
    ELSE IF raw.id \notin UuidTexts THEN ParseFail("invalid vmess uuid")
    ELSE IF validate_hostname(raw.host) # "" THEN ParseFail(validate_hostname(raw.host))
    \* data.get("port", 0)
    ELSE IF validate_port(IF raw.port = "" THEN "0" ELSE raw.port) # ""
         THEN ParseFail(validate_port(IF raw.port = "" THEN "0" ELSE raw.port))
    ELSE ParseOk([type |-> "vmess", id |-> raw.id, host |-> raw.host,
                  port |-> PortValue[raw.port], security |-> raw.security,
                  network |-> raw.network, path |-> raw.path],
                 SanityWarnings(WarnVmessNoTls, raw.security, raw.network, raw.path))

\* parse_config without its "if not raw" check and with a lenient fallback:
\* the empty text yields an empty descriptor
parse_config_lenient(raw) ==
    IF raw.scheme = "" THEN ParseOk(NoConfig, <<>>)
    ELSE IF Lower(raw.scheme) = "vless" THEN parse_vless([raw EXCEPT !.pad = FALSE])
    ELSE IF Lower(raw.scheme) = "vmess" THEN parse_vmess([raw EXCEPT !.pad = FALSE])
    ELSE ParseFail("unsupported config type (expect vless:// or vmess://)")

parse_config(raw) ==
    \* raw = (raw or "").strip(); if not raw: raise
    IF raw.scheme = "" THEN ParseFail("empty config")
    ELSE IF Lower(raw.scheme) = "vless" THEN parse_vless([raw EXCEPT !.pad = FALSE])
    ELSE IF Lower(raw.scheme) = "vmess" THEN parse_vmess([raw EXCEPT !.pad = FALSE])
    ELSE ParseFail("unsupported config type (expect vless:// or vmess://)")

-----------------------------------------------------------------------------
(* plugins/base.py *)

\* sorted() over the kind strings that occur
KindOrder ==
    <<BogusKind, KIND_COMPLIANCE, KIND_PERFORMANCE, KIND_SECURITY_ADV,
      KIND_SECURITY_BASIC, KIND_STABILITY>>

\* available_kinds(): sorted(_REGISTRY.keys())
available_kinds(registry) == SelectSeqBy(KindOrder, DOMAIN registry)

\* PluginResult; error None is written "<None>"
PluginResult(ok, kind, metrics, warnings, error) ==
    [ok |-> ok, kind |-> kind, metrics |-> metrics, warnings |-> warnings,
     error |-> error]

-----------------------------------------------------------------------------
(* core/runner.py: payloads *)

TaskIdMissing == "<key absent>"
TaskIdMalformed == "not-a-uuid"
TaskIdNotString == "<int 7>"

\* TaskRequest.model_validate(payload) succeeds
TaskRequestValid(p) ==
    /\ p.task_id \in UuidTexts
    /\ p.config_raw.present
    /\ Len(p.tests) >= 1

\* uuid.UUID(payload.get("task_id", "0000...")) raises
FallbackTaskIdRaises(p) ==
    p.task_id \notin UuidTexts \cup {TaskIdMissing}

\* uuid.UUID(payload.get("task_id", "0000...")) when it does not raise
FallbackTaskId(p) ==
    IF p.task_id = TaskIdMissing THEN ZeroUuid ELSE p.task_id

Warning(text, kinds) == [text |-> text, kinds |-> kinds]
Error(text, detail) == [text |-> text, detail |-> detail]

RECURSIVE AsWarnings(_)
\* the parser's warning strings as entries of the task-level list
AsWarnings(ws) ==
    IF ws = <<>> THEN <<>> ELSE <<Warning(Head(ws), <<>>)>> \o AsWarnings(Tail(ws))

TaskResponse(task_id, ok, results, warnings, errors) ==
    [task_id |-> task_id, ok |-> ok, results |-> results, warnings |-> warnings,
     errors |-> errors]

NoResults == [k \in {} |-> PluginResult(FALSE, "", {}, <<>>, "")]

NoResponse == TaskResponse("", FALSE, NoResults, <<>>, <<>>)

-----------------------------------------------------------------------------
(* core/runner.py: the gate *)

RECURSIVE DedupeFrom(_, _)
DedupeFrom(s, seen) ==
    IF s = <<>> THEN <<>>
    ELSE IF Head(s) \in seen THEN DedupeFrom(Tail(s), seen)
    ELSE <<Head(s)>> \o DedupeFrom(Tail(s), seen \cup {Head(s)})

\* the requested list taken as it is
DedupeNone(s) == s

\* list(dict.fromkeys(req.tests))
Dedupe(s) == DedupeFrom(s, {})

SkipWarning ==
    Warning("advanced security tests skipped (consent disabled or not granted).", <<>>)

\* the gate without consent_required: consent_granted alone opens it
ConsentDeniedIgnoringRequired(toggle, consent_required, consent_granted) ==
    ~toggle \/ ~consent_granted

\* the condition under which the loop skips security_adv
ConsentDenied(toggle, consent_required, consent_granted) ==
    ~toggle \/ ~(consent_required /\ consent_granted)

RECURSIVE ConsentGate(_, _, _, _)
\* the for-loop over requested: [effective |-> ..., warnings |-> ...]
ConsentGate(requested, toggle, consent_required, consent_granted) ==
    IF requested = <<>> THEN [effective |-> <<>>, warnings |-> <<>>]
    ELSE LET rest == ConsentGate(Tail(requested), toggle, consent_required,
                                 consent_granted)
             k == Head(requested)
         IN IF k = KIND_SECURITY_ADV
               /\ ConsentDenied(toggle, consent_required, consent_granted)
            THEN [effective |-> rest.effective,
                  warnings |-> <<SkipWarning>> \o rest.warnings]
            ELSE [effective |-> <<k>> \o rest.effective, warnings |-> rest.warnings]

\* the filter stopping at the first unknown kind it meets
UnknownKindsFirstOnly(effective, registry) ==
    LET unknown == SelectSeqBy(effective,
                       Range(effective) \ Range(available_kinds(registry)))
    IN IF unknown = <<>> THEN <<>> ELSE <<Head(unknown)>>

\* unknown = [k for k in effective_tests if k not in available_kinds()]
UnknownKinds(effective, registry) ==
    SelectSeqBy(effective, Range(effective) \ Range(available_kinds(registry)))

UnknownWarning(unknown) ==
    Warning("unknown/unsupported test kinds skipped", unknown)

\* the gate with the registry's notice put ahead of the consent notices
GateUnknownFirst(p, parse_warnings, toggle, registry) ==
    LET requested == Dedupe(p.tests)
        gated == ConsentGate(requested, toggle, p.consent_required,
                             p.consent_granted)
        unknown == UnknownKinds(gated.effective, registry)
    IN [effective |-> IF unknown # <<>>
                      THEN SelectSeqBy(gated.effective,
                                       Range(gated.effective) \ Range(unknown))
                      ELSE gated.effective,
        warnings |-> AsWarnings(parse_warnings)
                     \o (IF unknown # <<>> THEN <<UnknownWarning(unknown)>>
                         ELSE <<>>)
                     \o gated.warnings]

\* lines 101-117: the surviving kinds and the warnings, for a parsed request
Gate(p, parse_warnings, toggle, registry) ==
    LET requested == Dedupe(p.tests)
        gated == ConsentGate(requested, toggle, p.consent_required,
                             p.consent_granted)
        unknown == UnknownKinds(gated.effective, registry)
    IN [effective |-> IF unknown # <<>>
                      THEN SelectSeqBy(gated.effective,
                                       Range(gated.effective) \ Range(unknown))
                      ELSE gated.effective,
        warnings |-> AsWarnings(parse_warnings) \o gated.warnings
                     \o (IF unknown # <<>> THEN <<UnknownWarning(unknown)>>
                         ELSE <<>>)]

-----------------------------------------------------------------------------
(* core/runner.py: _run_single and the aggregation *)

NoResult == PluginResult(FALSE, "", {}, <<>>, "")

\* what a plugin body may hand back from run(ctx)
PluginOkResult(kind) ==
    PluginResult(TRUE, kind, {"latency_ms"}, <<"plugin note">>, "<None>")
PluginFailResult(kind) ==
    PluginResult(FALSE, kind, {}, <<"plugin note">>, "probe failed")

\* str(e) of the exception a plugin body raises
PluginExcMessage == "boom"

\* what happens inside asyncio.wait_for(plugin.run(ctx), timeout)
Events == {"returned_ok", "returned_fail", "raised", "timeout"}

\* _run_single without its "except asyncio.TimeoutError" clause: the timeout
\* falls into "except Exception" and is reported with str(e), the empty text
RunSingleNoTimeoutClause(kind, event) ==
    CASE event = "returned_ok" -> PluginOkResult(kind)
      [] event = "returned_fail" -> PluginFailResult(kind)
      [] event = "timeout" -> PluginResult(FALSE, kind, {}, <<>>, "")
      [] event = "raised" -> PluginResult(FALSE, kind, {}, <<>>, PluginExcMessage)

\* _run_single's return value, by what happened inside wait_for
RunSingle(kind, event) ==
    CASE event = "returned_ok" -> PluginOkResult(kind)
      [] event = "returned_fail" -> PluginFailResult(kind)
      [] event = "timeout" -> PluginResult(FALSE, kind, {}, <<>>, "timeout")
      [] event = "raised" -> PluginResult(FALSE, kind, {}, <<>>, PluginExcMessage)

\* one coroutine of the gather: _guarded(kind)
NewTask(kind) == [kind |-> kind, phase |-> "queued", event |-> "", result |-> NoResult]

\* the entry results_map[kind] built from a pair
ResultEntry(res) ==
    [ok |-> res.ok, metrics |-> res.metrics, warnings |-> res.warnings,
     error |-> res.error]

\* the index of the last pair of a kind: later pairs overwrite earlier ones
LastOf(ts, kind) ==
    CHOOSE i \in 1..Len(ts) :
        /\ ts[i].kind = kind
        /\ \A j \in (i + 1)..Len(ts) : ts[j].kind # kind

\* results_map after the loop over pairs
ResultsMap(ts) ==
    [k \in {ts[i].kind : i \in 1..Len(ts)} |-> ResultEntry(ts[LastOf(ts, k)].result)]

\* "any_ok and res.ok" in place of "any_ok or res.ok", starting from True
AllOk(ts) == \A i \in 1..Len(ts) : ts[i].result.ok

\* any_ok after the loop over pairs
AnyOk(ts) == \E i \in 1..Len(ts) : ts[i].result.ok

\* a gather without the semaphore: every coroutine enters at once
SlotFreeAlways(s) == TRUE

\* asyncio.Semaphore: a slot is free
SlotFree(s) == s > 0

\* the runner without its "Nothing to run?" check
NothingLeftNever(effective) == FALSE

\* "if not effective_tests"
NothingLeft(effective) == effective = <<>>

\* asyncio.wait(..., return_when=FIRST_COMPLETED) in place of gather
AnyDone(ts) == \E i \in 1..Len(ts) : ts[i].phase = "done"

\* the gather is complete: every coroutine has returned its pair
AllDone(ts) == \A i \in 1..Len(ts) : ts[i].phase = "done"

-----------------------------------------------------------------------------
(* Inputs *)

\* the longest tests list a payload carries
MaxTests == 6

\* the request lists are the windows of this list: repeats, all five canonical
\* kinds in a row (one more than the pool holds) and an unregistered kind
BaseTests ==
    <<KIND_PERFORMANCE, KIND_STABILITY, KIND_PERFORMANCE, KIND_COMPLIANCE,
      KIND_SECURITY_BASIC, KIND_SECURITY_ADV, BogusKind>>

TestLists ==
    {SubSeq(BaseTests, a, b) : a \in 1..Len(BaseTests), b \in 0..Len(BaseTests)}
        \cup {<<KIND_PERFORMANCE, BogusKind>>}

Uri(scheme, id, host, port, security, network, path) ==
    [present |-> TRUE, pad |-> FALSE, scheme |-> scheme, id |-> id, host |-> host,
     port |-> port, security |-> security, network |-> network, path |-> path,
     b64json |-> TRUE]

VlessTls == Uri("vless", GoodUuid, "example.com", "443", "tls", "ws", "/ws")
VlessPlain == Uri("VLESS", GoodUuid, "1.2.3.4", "65535", "", "ws", "")
EmptyText == Uri("", "", "", "", "", "", "")

GoodConfigs == {VlessTls, VlessPlain}

BadConfigs ==
    {EmptyText,
     [EmptyText EXCEPT !.pad = TRUE],
     Uri("http", GoodUuid, "example.com", "443", "tls", "", ""),
     Uri("vless", "not-a-uuid", "example.com", "443", "tls", "", ""),
     Uri("vless", GoodUuid, "example.com", "", "tls", "", ""),
     Uri("vmess", GoodUuid, "example.com", "65536", "tls", "", ""),
     [Uri("vmess", GoodUuid, "example.com", "443", "tls", "", "")
        EXCEPT !.b64json = FALSE]}

\* payload without the key config_raw
MissingConfig == [EmptyText EXCEPT !.present = FALSE]

Payload(task_id, uid, config_raw, tests, consent_required, consent_granted) ==
    [task_id |-> task_id, user_telegram_id |-> uid, config_raw |-> config_raw,
     tests |-> tests, consent_required |-> consent_required,
     consent_granted |-> consent_granted]

\* well-formed requests: every config, every window, every consent combination
WellFormedPayloads ==
    {Payload(GoodUuid, 1, c, t, cr, cg) :
        c \in GoodConfigs \cup BadConfigs,
        t \in {w \in TestLists : 1 <= Len(w) /\ Len(w) <= MaxTests},
        cr \in BOOLEAN, cg \in BOOLEAN}

\* requests that break (or are claimed to break) a field constraint
MalformedPayloads ==
    {Payload(id, uid, c, t, FALSE, FALSE) :
        id \in {GoodUuid, TaskIdMissing, TaskIdMalformed, TaskIdNotString},
        uid \in {0, 1},
        c \in {VlessTls, MissingConfig},
        t \in {<<>>, <<KIND_PERFORMANCE>>}}

Payloads == WellFormedPayloads \cup MalformedPayloads

\* what the imported plugin modules may have registered
RegistryChoices ==
    {[k \in CanonicalKinds |-> "PluginClass"],
     [k \in CanonicalKinds \ {KIND_STABILITY} |-> "PluginClass"]}

\* no call into the registry has been made
NoCall == [op |-> "", kind |-> "", cls |-> "", outcome |-> ""]

\* parse_config has not been called
NotParsed == ParseFail("<not called>")

-----------------------------------------------------------------------------
(* The state machine *)

Init ==
    /\ pc = "start"
    /\ payload \in Payloads
    /\ ENABLE_SECURITY_ADVANCED \in BOOLEAN
    /\ REGISTRY \in RegistryChoices
    /\ parsed = FALSE
    /\ effective_tests = <<>>
    /\ tasks = <<>>
    /\ sem = 0
    /\ response = NoResponse
    /\ raised = ""
    /\ regFirst = REGISTRY
    /\ regCall = NoCall
    /\ rawIn = EmptyText
    /\ parseOut = NotParsed
    /\ cmds = <<>>

Return(resp) ==
    /\ pc' = "done"
    /\ response' = resp
    /\ raised' = ""

Raise(exc) ==
    /\ pc' = "raised"
    /\ raised' = exc
    /\ response' = NoResponse

\* lines 78-87, when building the error response itself raises
ValidationRaises ==
    /\ UNCHANGED others
    /\ pc = "start"
    /\ ~TaskRequestValid(payload)
    /\ FallbackTaskIdRaises(payload)
    /\ Raise("uuid.UUID: bad task_id")
    /\ UNCHANGED <<payload, ENABLE_SECURITY_ADVANCED, REGISTRY, parsed,
                   effective_tests, tasks, sem>>

\* lines 78-87
ValidationFails ==
    /\ UNCHANGED others
    /\ pc = "start"
    /\ ~TaskRequestValid(payload)
    /\ ~FallbackTaskIdRaises(payload)
    /\ Return(TaskResponse(FallbackTaskId(payload), FALSE, NoResults, <<>>,
                           <<Error("validation error", "ValidationError")>>))
    /\ UNCHANGED <<payload, ENABLE_SECURITY_ADVANCED, REGISTRY, parsed,
                   effective_tests, tasks, sem>>

\* lines 89-99
ParseFails ==
    /\ UNCHANGED others
    /\ pc = "start"
    /\ TaskRequestValid(payload)
    /\ ~parse_config(payload.config_raw).ok
    /\ parsed' = TRUE
    /\ Return(TaskResponse(payload.task_id, FALSE, NoResults, <<>>,
                           <<Error("config parse error",
                                   parse_config(payload.config_raw).error)>>))
    /\ UNCHANGED <<payload, ENABLE_SECURITY_ADVANCED, REGISTRY, effective_tests,
                   tasks, sem>>

\* lines 101-127
\* the nothing-to-run answer built like the two earlier error answers, with
\* warnings=[]
NothingToRunDropsWarnings ==
    /\ UNCHANGED others
    /\ pc = "start"
    /\ TaskRequestValid(payload)
    /\ parse_config(payload.config_raw).ok
    /\ LET g == Gate(payload, parse_config(payload.config_raw).warnings,
                     ENABLE_SECURITY_ADVANCED, REGISTRY)
       IN /\ NothingLeft(g.effective)
          /\ effective_tests' = g.effective
          /\ Return(TaskResponse(payload.task_id, FALSE, NoResults, <<>>,
                                 <<Error("no effective tests to run", "")>>))
    /\ parsed' = TRUE
    /\ UNCHANGED <<payload, ENABLE_SECURITY_ADVANCED, REGISTRY, tasks, sem>>

\* lines 119-127: nothing survived the gate
NothingToRun ==
    /\ UNCHANGED others
    /\ pc = "start"
    /\ TaskRequestValid(payload)
    /\ parse_config(payload.config_raw).ok
    /\ LET g == Gate(payload, parse_config(payload.config_raw).warnings,
                     ENABLE_SECURITY_ADVANCED, REGISTRY)
       IN /\ NothingLeft(g.effective)
          /\ effective_tests' = g.effective
          /\ Return(TaskResponse(payload.task_id, FALSE, NoResults, g.warnings,
                                 <<Error("no effective tests to run", "")>>))
    /\ parsed' = TRUE
    /\ UNCHANGED <<payload, ENABLE_SECURITY_ADVANCED, REGISTRY, tasks, sem>>

\* lines 101-144: the gather is started over the surviving kinds
FanOut ==
    /\ UNCHANGED others
    /\ pc = "start"
    /\ TaskRequestValid(payload)
    /\ parse_config(payload.config_raw).ok
    /\ LET g == Gate(payload, parse_config(payload.config_raw).warnings,
                     ENABLE_SECURITY_ADVANCED, REGISTRY)
       IN /\ ~NothingLeft(g.effective)
          /\ effective_tests' = g.effective
          /\ tasks' = [i \in 1..Len(g.effective) |-> NewTask(g.effective[i])]
          \* the warnings collected so far wait in the response under construction
          /\ response' = [NoResponse EXCEPT !.task_id = payload.task_id,
                                            !.warnings = g.warnings]
    /\ parsed' = TRUE
    /\ sem' = MAX_PARALLEL_PLUGINS
    /\ pc' = "gather"
    /\ UNCHANGED <<payload, ENABLE_SECURITY_ADVANCED, REGISTRY, raised>>

\* _guarded(kind) may enter "async with sem": a slot is free and no earlier
\* coroutine of the gather is still waiting (asyncio wakes waiters first-come)
MayAcquire(i) ==
    /\ pc = "gather"
    /\ i \in 1..Len(tasks)
    /\ tasks[i].phase = "queued"
    /\ \A j \in 1..(i - 1) : tasks[j].phase # "queued"
    /\ SlotFree(sem)

\* lines 141-142, 58-60: the slot is taken, the plugin is made and its body starts
StartPlugin(i) ==
    /\ UNCHANGED others
    /\ MayAcquire(i)
    /\ tasks[i].kind \in DOMAIN REGISTRY
    /\ tasks' = [tasks EXCEPT ![i].phase = "running"]
    /\ sem' = sem - 1
    /\ UNCHANGED <<pc, payload, ENABLE_SECURITY_ADVANCED, REGISTRY, parsed,
                   effective_tests, response, raised>>

\* every coroutine of the gather that has not returned is cancelled when
\* asyncio.run tears the loop down
CancelPending(ts, i) ==
    [j \in 1..Len(ts) |->
        IF j = i THEN [ts[j] EXCEPT !.phase = "failed"]
        ELSE IF ts[j].phase \in {"queued", "running"}
             THEN [ts[j] EXCEPT !.phase = "cancelled"]
             ELSE ts[j]]

\* line 58: make_plugin raises (the factory raises, or no factory is found);
\* it is outside the try, so the exception leaves _run_single, the gather and
\* execute_request_async
MakePluginRaises(i) ==
    /\ UNCHANGED others
    /\ MayAcquire(i)
    /\ tasks' = CancelPending(tasks, i)
    /\ Raise("make_plugin raised")
    /\ UNCHANGED <<payload, ENABLE_SECURITY_ADVANCED, REGISTRY, parsed,
                   effective_tests, sem>>

\* _run_single without its try: a timeout or an exception of the plugin body
\* leaves the gather and execute_request_async
FinishEscalates(i, event) ==
    /\ UNCHANGED others
    /\ pc = "gather"
    /\ i \in 1..Len(tasks)
    /\ tasks[i].phase = "running"
    /\ IF event \in {"timeout", "raised"}
       THEN /\ tasks' = CancelPending([tasks EXCEPT ![i].event = event], i)
            /\ Raise(event)
            /\ UNCHANGED sem
       ELSE /\ tasks' = [tasks EXCEPT ![i].phase = "done",
                                      ![i].event = event,
                                      ![i].result = RunSingle(tasks[i].kind, event)]
            /\ sem' = sem + 1
            /\ UNCHANGED <<pc, response, raised>>
    /\ UNCHANGED <<payload, ENABLE_SECURITY_ADVANCED, REGISTRY, parsed,
                   effective_tests>>

\* lines 59-65, 141: wait_for ends (result, exception or timeout), _run_single
\* returns the pair and the slot is released
Finish(i, event) ==
    /\ UNCHANGED others
    /\ pc = "gather"
    /\ i \in 1..Len(tasks)
    /\ tasks[i].phase = "running"
    /\ tasks' = [tasks EXCEPT ![i].phase = "done",
                              ![i].event = event,
                              ![i].result = RunSingle(tasks[i].kind, event)]
    /\ sem' = sem + 1
    /\ UNCHANGED <<pc, payload, ENABLE_SECURITY_ADVANCED, REGISTRY, parsed,
                   effective_tests, response, raised>>

PluginReturns(i) == \E e \in {"returned_ok", "returned_fail"} : Finish(i, e)
PluginRaises(i) == Finish(i, "raised")
PluginTimesOut(i) == Finish(i, "timeout")

\* lines 144-160
Aggregate ==
    /\ UNCHANGED others
    /\ pc = "gather"
    /\ AllDone(tasks)
    /\ Return(TaskResponse(payload.task_id, AnyOk(tasks), ResultsMap(tasks),
                           response.warnings, <<>>))
    /\ UNCHANGED <<payload, ENABLE_SECURITY_ADVANCED, REGISTRY, parsed,
                   effective_tests, tasks, sem>>

Positions == 1..Len(BaseTests)

Next ==
    \/ ValidationRaises
    \/ ValidationFails
    \/ ParseFails
    \/ NothingToRun
    \/ FanOut
    \/ \E i \in Positions : StartPlugin(i)
    \/ \E i \in Positions : MakePluginRaises(i)
    \/ \E i \in Positions : PluginReturns(i)
    \/ \E i \in Positions : PluginRaises(i)
    \/ \E i \in Positions : PluginTimesOut(i)
    \/ Aggregate

Spec == Init /\ [][Next]_vars

\* the steps execute_request_async takes before its first await
Start == ValidationRaises \/ ValidationFails \/ ParseFails \/ NothingToRun \/ FanOut

\* The requests followed under fairness: the malformed ones, and well-formed
\* ones that fill the pool, repeat a kind, or ask for security_adv alone.
FairPayloads ==
    MalformedPayloads \cup
    {Payload(GoodUuid, 1, c, t, TRUE, cg) :
        c \in {VlessPlain, EmptyText},
        t \in {SubSeq(BaseTests, 1, MaxTests), SubSeq(BaseTests, 1, 3),
               <<KIND_SECURITY_ADV>>},
        cg \in BOOLEAN}

FairInit ==
    /\ Init
    /\ payload \in FairPayloads
    /\ ENABLE_SECURITY_ADVANCED
    /\ REGISTRY = [k \in CanonicalKinds |-> "PluginClass"]

\* The event loop runs every coroutine that is ready, and the timer of a
\* wait_for fires; that a plugin body ever returns or raises is not assumed.
FairSpec ==
    /\ FairInit
    /\ [][Next]_vars
    /\ WF_vars(Start)
    /\ WF_vars(\E i \in Positions : StartPlugin(i))
    /\ WF_vars(\E i \in Positions : PluginTimesOut(i))
    /\ WF_vars(Aggregate)

-----------------------------------------------------------------------------
(* Properties *)

Running == {i \in 1..Len(tasks) : tasks[i].phase = "running"}
Queued == {i \in 1..Len(tasks) : tasks[i].phase = "queued"}

\* the response of a task that went through the gate (it was neither refused
\* by validation nor by the parser)
GatedResponse ==
    /\ pc = "done"
    /\ parsed
    /\ \A n \in 1..Len(response.errors) :
          response.errors[n].text = "no effective tests to run"

\* the consent the gate asks for
ConsentGiven ==
    /\ ENABLE_SECURITY_ADVANCED
    /\ payload.consent_required
    /\ payload.consent_granted

\* C1: execute_request_async never raises: whatever the payload and whatever
\* the plugins do, it ends by returning a TaskResponse, never by an exception.
C1_NeverRaises == pc # "raised"

\* C2: at no instant do more than MAX_PARALLEL_PLUGINS kinds of one task hold
\* a semaphore slot and execute their plugin body.
C2_ConcurrencyBound == Cardinality(Running) <= MAX_PARALLEL_PLUGINS

\* C2 witness: the pool is saturated while a further surviving kind waits.
C2_PoolSaturated ==
    /\ pc = "gather"
    /\ Len(tasks) > MAX_PARALLEL_PLUGINS
    /\ Cardinality(Running) = MAX_PARALLEL_PLUGINS
    /\ Queued # {}

\* the outcome of a kind that timed out: ok=false, error "timeout", no metrics
IsTimeoutOutcome(o) == ~o.ok /\ o.error = "timeout" /\ o.metrics = {}

\* C3: a surviving kind whose plugin does not complete within ctx.timeout_sec
\* never hangs: its coroutine always comes to an end, and when it ended by the
\* timeout the outcome recorded for the kind, in the pair and in the response,
\* is ok=false, error="timeout", with empty metrics.
C3_TimeoutDeterminism ==
    /\ \A i \in Positions :
          (i \in 1..Len(tasks) /\ tasks[i].phase \in {"queued", "running"})
             ~> (i \in 1..Len(tasks) /\ tasks[i].phase \notin {"queued", "running"})
    /\ [](\A i \in 1..Len(tasks) :
            tasks[i].event = "timeout"
               => /\ tasks[i].phase = "done"
                  /\ IsTimeoutOutcome(tasks[i].result)
                  /\ pc = "done"
                       => IsTimeoutOutcome(response.results[tasks[i].kind]))

\* C3 witness: a task has returned a response in which a kind timed out.
C3_TimedOutKind ==
    /\ pc = "done"
    /\ \E i \in 1..Len(tasks) :
          /\ tasks[i].event = "timeout"
          /\ response.results[tasks[i].kind].error = "timeout"

\* the entry a kind gets in results, by what its own plugin did
OwnOutcome(kind, event, entry) ==
    CASE event = "timeout" -> ~entry.ok /\ entry.error = "timeout"
      [] event = "raised" -> ~entry.ok /\ entry.error = PluginExcMessage
      [] event = "returned_ok" -> entry = ResultEntry(PluginOkResult(kind))
      [] event = "returned_fail" -> entry = ResultEntry(PluginFailResult(kind))
      [] OTHER -> FALSE

\* C4: when the plugin of one kind times out or raises while running, the step
\* touches no other kind and does not end the task; the failing kind's outcome
\* is ok=false with the error; and in the response every kind carries the
\* outcome of its own plugin, with the task-level errors empty.
C4_FaultIsolation ==
    /\ [][\A i \in 1..Len(tasks) :
            (tasks[i].phase = "running" /\ tasks'[i].event \in {"timeout", "raised"})
               => /\ pc' = "gather"
                  /\ tasks'[i].phase = "done"
                  /\ OwnOutcome(tasks[i].kind, tasks'[i].event,
                                ResultEntry(tasks'[i].result))
                  /\ \A j \in 1..Len(tasks) : j # i => tasks'[j] = tasks[j]]_vars
    /\ [](pc = "done" /\ tasks # <<>>
            => /\ response.errors = <<>>
               /\ \A i \in 1..Len(tasks) :
                     OwnOutcome(tasks[i].kind, tasks[i].event,
                                response.results[tasks[i].kind]))

\* C4 witness: a response in which one kind timed out, another raised and a
\* third returned its own successful outcome.
C4_FailuresBesideSuccess ==
    /\ pc = "done"
    /\ response.errors = <<>>
    /\ \E i, j, k \in 1..Len(tasks) :
          /\ tasks[i].event = "timeout"
          /\ tasks[j].event = "raised"
          /\ tasks[k].event = "returned_ok"
          /\ response.results[tasks[k].kind].ok

\* the surviving kinds, from the request, the settings and the registry
SurvivingKinds ==
    {k \in Range(payload.tests) :
        /\ k \in DOMAIN REGISTRY
        /\ k = KIND_SECURITY_ADV => ConsentGiven}

\* C5: a task that reached the fan-out answers only once every surviving kind
\* has its outcome, and the keys of results are exactly the surviving kinds
\* (deduplicated, consent-gated, registered), whatever the completion order
\* and however many kinds had to wait for a slot.
C5_CompleteResults ==
    (pc = "done" /\ tasks # <<>>)
        => /\ \A i \in 1..Len(tasks) : tasks[i].phase = "done"
           /\ DOMAIN response.results = SurvivingKinds
           /\ {tasks[i].kind : i \in 1..Len(tasks)} = SurvivingKinds
           /\ Len(tasks) = Cardinality(SurvivingKinds)

\* C5 witness: a response for more kinds than the pool holds, the kind that
\* was started last having finished before one started earlier.
C5_QueuedKindReported ==
    /\ pc = "done"
    /\ Len(tasks) > MAX_PARALLEL_PLUGINS
    /\ DOMAIN response.results = SurvivingKinds
    /\ tasks[Len(tasks)].event = "returned_ok"
    /\ tasks[1].event = "timeout"

\* the gate has run for this task: the fan-out is under way or a gated
\* response was returned
GateRan == pc = "gather" \/ GatedResponse

\* C6: security_adv is executed, and appears in results, only if the global
\* toggle is on and the request has consent_required and consent_granted; in
\* every other combination it is dropped with the skip warning, once; every
\* other requested kind passes the gate (only the registry can drop it).
C6_ConsentLaw ==
    /\ \A i \in 1..Len(tasks) : tasks[i].kind = KIND_SECURITY_ADV => ConsentGiven
    /\ (pc = "done" /\ KIND_SECURITY_ADV \in DOMAIN response.results) => ConsentGiven
    /\ GateRan =>
          /\ (KIND_SECURITY_ADV \in Range(payload.tests) /\ ~ConsentGiven)
                => /\ KIND_SECURITY_ADV \notin Range(effective_tests)
                   /\ Len(SelectSeq(response.warnings,
                                    LAMBDA w : w = SkipWarning)) = 1
          /\ (KIND_SECURITY_ADV \notin Range(payload.tests) \/ ConsentGiven)
                => SkipWarning \notin Range(response.warnings)
          /\ \A k \in Range(payload.tests) :
                (k \in DOMAIN REGISTRY /\ (k # KIND_SECURITY_ADV \/ ConsentGiven))
                   => k \in Range(effective_tests)

\* C6 witness: with the toggle on and consent_required set but consent not
\* granted, security_adv was dropped with the warning and the other kinds ran.
C6_DeniedAmongOthers ==
    /\ pc = "done"
    /\ ENABLE_SECURITY_ADVANCED
    /\ payload.consent_required
    /\ ~payload.consent_granted
    /\ KIND_SECURITY_ADV \in Range(payload.tests)
    /\ SkipWarning \in Range(response.warnings)
    /\ DOMAIN response.results # {}
    /\ KIND_SECURITY_ADV \notin DOMAIN response.results

\* C7: the task-level ok is the OR of the per-kind flags: ok is true if and
\* only if some kind in results has ok=true.
C7_OkIsOr ==
    pc = "done" =>
        (response.ok <=> \E k \in DOMAIN response.results : response.results[k].ok)

\* C7 witness: one kind passed among failing ones and the task reports ok.
C7_OnePassingAmongFailing ==
    /\ pc = "done"
    /\ response.ok
    /\ \E k, l \in DOMAIN response.results :
          response.results[k].ok /\ ~response.results[l].ok

\* C8: every response has one of two shapes: never ran (errors non-empty,
\* results empty, ok=false) or ran (errors empty, results non-empty).
C8_TwoShapes ==
    pc = "done" =>
        \/ /\ response.errors # <<>>
           /\ DOMAIN response.results = {}
           /\ ~response.ok
        \/ /\ response.errors = <<>>
           /\ DOMAIN response.results # {}

\* C8 witness: the gate left nothing to run; the response is of the first shape.
C8_NeverRanAfterGate ==
    /\ pc = "done"
    /\ parsed
    /\ effective_tests = <<>>
    /\ payload.tests # <<>>
    /\ Len(response.errors) = 1
    /\ response.errors[1].text = "no effective tests to run"
    /\ DOMAIN response.results = {}

\* the payload breaks a field constraint of the request
ViolatesConstraint(p) ==
    \/ p.tests = <<>>
    \/ p.user_telegram_id < 1
    \/ p.task_id \notin UuidTexts
    \/ ~p.config_raw.present

\* C9: a payload that violates a field constraint (empty tests, non-positive
\* user_telegram_id, missing or malformed task_id, missing config_raw) gets a
\* response with ok=false, empty results and exactly one validation error,
\* and neither the parser nor a plugin is invoked.
C9_ValidationShortCircuits ==
    (ViolatesConstraint(payload) /\ pc # "start")
        => /\ pc = "done"
           /\ ~response.ok
           /\ DOMAIN response.results = {}
           /\ Len(response.errors) = 1
           /\ response.errors[1].text = "validation error"
           /\ ~parsed
           /\ tasks = <<>>

\* the request is valid and its config is one the parser rejects
RejectedConfig(p) ==
    /\ p.task_id \in UuidTexts
    /\ p.config_raw.present
    /\ p.tests # <<>>
    /\ \/ p.config_raw.scheme = ""
       \/ Lower(p.config_raw.scheme) \notin {"vless", "vmess"}
       \/ p.config_raw.id \notin UuidTexts
       \/ p.config_raw.port \notin {"1", "443", "65535"}
       \/ Lower(p.config_raw.scheme) = "vmess" /\ ~p.config_raw.b64json

\* C10: for a valid request whose config_raw the parser rejects (the empty and
\* the whitespace-only text included) the response has ok=false, empty
\* results and exactly one error naming the parse failure, and no plugin is
\* instantiated or run, whatever kinds and consent flags were requested.
C10_ParseFailureShortCircuits ==
    (RejectedConfig(payload) /\ pc # "start")
        => /\ pc = "done"
           /\ ~response.ok
           /\ DOMAIN response.results = {}
           /\ Len(response.errors) = 1
           /\ response.errors[1].text = "config parse error"
           /\ response.errors[1].detail # ""
           /\ tasks = <<>>

\* C10 witness: a whitespace-only config, security_adv requested with full
\* consent: the response names the parse failure and nothing was run.
C10_BlankConfigRejected ==
    /\ pc = "done"
    /\ payload.config_raw.scheme = ""
    /\ payload.config_raw.pad
    /\ KIND_SECURITY_ADV \in Range(payload.tests)
    /\ ConsentGiven
    /\ response.errors = <<Error("config parse error", "empty config")>>
    /\ tasks = <<>>


-----------------------------------------------------------------------------
(* The gate: empty surviving sets, duplicates, unknown kinds, warnings *)

\* the request was accepted by the validation and by the parser and the call
\* has gone past both
PastParser ==
    /\ pc # "start"
    /\ TaskRequestValid(payload)
    /\ parse_config(payload.config_raw).ok

\* the parser's warnings as they stand in a response, in the parser's order
ParserNotices ==
    LET ws == parse_config(payload.config_raw).warnings
    IN [n \in 1..Len(ws) |-> [text |-> ws[n], kinds |-> <<>>]]

\* the position of the first occurrence of each requested kind
FirstPositions ==
    {n \in 1..Len(payload.tests) :
        \A m \in 1..(n - 1) : payload.tests[m] # payload.tests[n]}

\* the requested kinds that pass the consent gate and are not registered, in
\* request order, each once
DroppedKinds ==
    LET drop(n) == /\ n \in FirstPositions
                   /\ payload.tests[n] \notin DOMAIN REGISTRY
                   /\ payload.tests[n] = KIND_SECURITY_ADV => ConsentGiven
        RECURSIVE from(_)
        from(n) == IF n > Len(payload.tests) THEN <<>>
                   ELSE (IF drop(n) THEN <<payload.tests[n]>> ELSE <<>>)
                        \o from(n + 1)
    IN from(1)

\* the warnings of a response that name unknown kinds
UnknownNotices ==
    SelectSeq(response.warnings,
              LAMBDA w : w.text = "unknown/unsupported test kinds skipped")

\* C11: when deduplication, the consent gate and the registry together leave
\* no kind to run, the answer is ok=false with results empty, errors exactly
\* ["no effective tests to run"] and the warnings holding every notice met so
\* far (the parser's, the consent skip, the unknown kinds), and no plugin is
\* ever run.
C11_EmptySurvivingSet ==
    (PastParser /\ SurvivingKinds = {})
        => /\ pc = "done"
           /\ tasks = <<>>
           /\ response.ok = FALSE
           /\ response.results = NoResults
           /\ response.errors = <<Error("no effective tests to run", "")>>
           /\ \A n \in 1..Len(ParserNotices) :
                 ParserNotices[n] \in Range(response.warnings)
           /\ (KIND_SECURITY_ADV \in Range(payload.tests) /\ ~ConsentGiven)
                 => SkipWarning \in Range(response.warnings)
           /\ DroppedKinds # <<>>
                 => \E n \in 1..Len(response.warnings) :
                       response.warnings[n].kinds = DroppedKinds

\* C11 witness: security_adv and an unknown kind were requested without
\* consent under a config the parser warns about; the answer carries the
\* parser's two warnings, the consent skip and the unknown-kind notice.
C11_AllNoticesNoRun ==
    /\ pc = "done"
    /\ PastParser
    /\ SurvivingKinds = {}
    /\ payload.tests = <<KIND_SECURITY_ADV, BogusKind>>
    /\ Len(ParserNotices) = 2
    /\ Len(response.warnings) = 4
    /\ response.errors = <<Error("no effective tests to run", "")>>
    /\ tasks = <<>>


\* the requested list with its repeats removed, first occurrences kept
FirstOccurrences ==
    LET RECURSIVE from(_)
        from(n) == IF n > Len(payload.tests) THEN <<>>
                   ELSE (IF n \in FirstPositions THEN <<payload.tests[n]>>
                         ELSE <<>>) \o from(n + 1)
    IN from(1)

\* C12: the requested kinds are reduced to their first occurrences in request
\* order before anything else; a list with repeats yields the same surviving
\* sequence, the same warnings and the same number of plugin runs (one per
\* distinct surviving kind) as the list with the repeats removed.
C12_DedupLaw ==
    (PastParser /\ GateRan)
        => LET g == Gate([payload EXCEPT !.tests = FirstOccurrences],
                         parse_config(payload.config_raw).warnings,
                         ENABLE_SECURITY_ADVANCED, REGISTRY)
           IN /\ effective_tests = g.effective
              /\ effective_tests = SelectSeqBy(FirstOccurrences, SurvivingKinds)
              /\ response.warnings = g.warnings
              /\ Len(tasks) = Cardinality(SurvivingKinds)
              /\ \A i \in 1..Len(tasks) : tasks[i].kind = effective_tests[i]

\* C12 witness: performance was requested twice around stability; the answer
\* has one outcome for each of the two kinds, performance having run first.
C12_RepeatRunOnce ==
    /\ pc = "done"
    /\ payload.tests = <<KIND_PERFORMANCE, KIND_STABILITY, KIND_PERFORMANCE>>
    /\ effective_tests = <<KIND_PERFORMANCE, KIND_STABILITY>>
    /\ Len(tasks) = 2
    /\ DOMAIN response.results = {KIND_PERFORMANCE, KIND_STABILITY}


\* C13: a requested kind that passes the consent gate but is not registered
\* is dropped without failing the task: one warning names all the dropped
\* kinds (none when nothing was dropped), the kinds that remain are run, and
\* results holds registered kinds only.
C13_UnknownKindsDropped ==
    (PastParser /\ GateRan)
        => /\ UnknownNotices =
                 (IF DroppedKinds = <<>> THEN <<>>
                  ELSE <<[text |-> "unknown/unsupported test kinds skipped",
                          kinds |-> DroppedKinds]>>)
           /\ Range(effective_tests) \cap Range(DroppedKinds) = {}
           /\ \A i \in 1..Len(tasks) : tasks[i].kind \in DOMAIN REGISTRY
           /\ pc = "done"
                 => /\ DOMAIN response.results \subseteq DOMAIN REGISTRY
                    /\ SurvivingKinds # {}
                          => /\ response.errors = <<>>
                             /\ DOMAIN response.results = SurvivingKinds

\* C13 witness: performance and bogus_kind were requested; performance ran
\* and passed, and the one warning names bogus_kind.
C13_BogusBesidePerformance ==
    /\ pc = "done"
    /\ payload.tests = <<KIND_PERFORMANCE, BogusKind>>
    /\ DOMAIN response.results = {KIND_PERFORMANCE}
    /\ response.ok
    /\ Len(UnknownNotices) = 1
    /\ UnknownNotices[1].kinds = <<BogusKind>>


\* the texts of the warnings the plugins put in their own outcomes
PluginNoteTexts ==
    UNION {Range(tasks[i].result.warnings) : i \in 1..Len(tasks)}

\* C14: the task-level warnings are the parser's warnings in the parser's
\* order, then the consent-gate warning, then the unknown-kind warning; the
\* parser's warnings are there whether or not a plugin runs; a warning of a
\* plugin stays in that kind's outcome and never enters the task-level list.
C14_WarningOrder ==
    (PastParser /\ GateRan)
        => /\ response.warnings =
                 ParserNotices
                 \o (IF KIND_SECURITY_ADV \in Range(payload.tests) /\ ~ConsentGiven
                     THEN <<SkipWarning>> ELSE <<>>)
                 \o (IF DroppedKinds # <<>>
                     THEN <<[text |-> "unknown/unsupported test kinds skipped",
                             kinds |-> DroppedKinds]>>
                     ELSE <<>>)
           /\ \A n \in 1..Len(response.warnings) :
                 response.warnings[n].text \notin PluginNoteTexts

\* C14 witness: a config with two parser warnings, security_adv without
\* consent and an unknown kind, beside security_basic whose plugin returned a
\* warning of its own: four task-level warnings in stage order, the
\* plugin's warning in its outcome only.
C14_ThreeStagesAndPluginNote ==
    /\ pc = "done"
    /\ PastParser
    /\ payload.tests = <<KIND_SECURITY_BASIC, KIND_SECURITY_ADV, BogusKind>>
    /\ Len(ParserNotices) = 2
    /\ Len(response.warnings) = 4
    /\ response.warnings[3] = SkipWarning
    /\ response.warnings[4].kinds = <<BogusKind>>
    /\ DOMAIN response.results = {KIND_SECURITY_BASIC}
    /\ response.results[KIND_SECURITY_BASIC].warnings # <<>>


-----------------------------------------------------------------------------
(* testsuite/common.py: run_cmd, called by plugin bodies under _run_single *)

\* lines 4-13: the modules the file imports by name
ModuleImports ==
    {"asyncio", "os", "platform", "resource", "shlex", "signal"}

DEFAULT_SUBPROCESS_MAX_OUTPUT_BYTES == 1000000

\* the longest output a child writes on one stream
MaxOut == 2

\* the bytes a child wrote on a stream: n bytes, each one distinct
Written(n) == [b \in 1..n |-> b]

\* b"timeout"
TimeoutBytes == <<116, 105, 109, 101, 111, 117, 116>>

\* proc.returncode of the children that occur: exit 0, exit 1, killed by 9
ReturnCodes == {0, 1, 0 - 9}

\* the max_output_bytes argument: None, or a byte count
NoneArg == [given |-> FALSE, value |-> 0]
CapArgs == {NoneArg} \cup {[given |-> TRUE, value |-> n] : n \in 0..MaxOut}

\* lines 65-66
EffectiveCap(arg) ==
    IF ~arg.given THEN DEFAULT_SUBPROCESS_MAX_OUTPUT_BYTES ELSE arg.value

CmdResult(exit_code, stdout, stderr, timeout) ==
    [exit_code |-> exit_code, stdout |-> stdout, stderr |-> stderr,
     timeout |-> timeout]

NoCmdResult == CmdResult(0, <<>>, <<>>, FALSE)

\* a cap that keeps the end of the stream
TruncateTail(data, max_output_bytes) ==
    IF Len(data) > max_output_bytes
    THEN SubSeq(data, Len(data) - max_output_bytes + 1, Len(data))
    ELSE data

\* lines 80-83: if len(data) > max_output_bytes: data = data[:max_output_bytes]
Truncate(data, max_output_bytes) ==
    IF Len(data) > max_output_bytes THEN SubSeq(data, 1, max_output_bytes)
    ELSE data

\* proc.returncode or 0
ExitCode(returncode) == IF returncode = 0 THEN 0 ELSE returncode

\* the kinds whose plugin bodies call run_cmd
CmdKinds == {KIND_PERFORMANCE, KIND_STABILITY}

\* a plugin body that has not called run_cmd
NoCmd ==
    [phase |-> "idle", child |-> "none", max_output_bytes |-> NoneArg,
     returncode |-> 0, wrote_out |-> <<>>, wrote_err |-> <<>>, event |-> "",
     result |-> NoCmdResult, exc |-> ""]


\* everything but the run_cmd calls
besideCmds == <<runnerVars, REGISTRY, regFirst, regCall, rawIn, parseOut>>

\* The orchestrator is set aside: what is followed is one plugin body per
\* kind of CmdKinds, each awaited by its own _run_single.
RunnerAside ==
    /\ pc = "aside"
    /\ payload = Payload(GoodUuid, 1, VlessTls, <<KIND_PERFORMANCE, KIND_STABILITY>>,
                         FALSE, FALSE)
    /\ ENABLE_SECURITY_ADVANCED = FALSE
    /\ parsed = FALSE
    /\ effective_tests = <<>>
    /\ tasks = <<>>
    /\ sem = 0
    /\ response = NoResponse
    /\ raised = ""

CmdInit ==
    /\ RunnerAside
    /\ REGISTRY = [k \in CanonicalKinds |-> "PluginClass"]
    /\ regFirst = REGISTRY
    /\ regCall = NoCall
    /\ rawIn = EmptyText
    /\ parseOut = NotParsed
    /\ cmds = [k \in CmdKinds |-> NoCmd]

\* lines 60-75: the arguments are settled and the child is created
CmdSpawn(k) ==
    /\ cmds[k].phase = "idle"
    /\ \E arg \in CapArgs :
          cmds' = [cmds EXCEPT ![k] = [@ EXCEPT !.phase = "communicate",
                                                !.child = "running",
                                                !.max_output_bytes = arg]]
    /\ UNCHANGED besideCmds

\* the child ends while communicate() reads its pipes
ChildExits(k) ==
    /\ cmds[k].phase = "communicate"
    /\ cmds[k].child = "running"
    /\ \E code \in ReturnCodes, no \in 0..MaxOut, ne \in 0..MaxOut :
          cmds' = [cmds EXCEPT ![k] = [@ EXCEPT !.child = "exited",
                                                !.returncode = code,
                                                !.wrote_out = Written(no),
                                                !.wrote_err = Written(ne)]]
    /\ UNCHANGED besideCmds

\* a child nobody reads from any more ends by itself
OrphanExits(k) ==
    /\ cmds[k].phase \in {"raised", "cancelled"}
    /\ cmds[k].child = "running"
    /\ \E code \in ReturnCodes :
          cmds' = [cmds EXCEPT ![k] = [@ EXCEPT !.child = "exited",
                                                !.returncode = code]]
    /\ UNCHANGED besideCmds

\* lines 78-84: communicate() returns within the timeout
CommunicateReturns(k) ==
    /\ cmds[k].phase = "communicate"
    /\ cmds[k].child = "exited"
    /\ LET cap == EffectiveCap(cmds[k].max_output_bytes)
       IN cmds' = [cmds EXCEPT ![k] =
                     [@ EXCEPT !.phase = "returned",
                               !.event = "exit",
                               !.result = CmdResult(ExitCode(cmds[k].returncode),
                                                    Truncate(cmds[k].wrote_out, cap),
                                                    Truncate(cmds[k].wrote_err, cap),
                                                    FALSE)]]
    /\ UNCHANGED besideCmds

\* lines 78, 85-88: wait_for raises TimeoutError and the handler runs; its
\* first statement looks the name contextlib up in the module's globals
CmdTimesOut(k) ==
    /\ cmds[k].phase = "communicate"
    /\ cmds[k].child = "running"
    /\ IF "contextlib" \in ModuleImports
       THEN \* SIGKILL reaches the child, or the child is gone already and
            \* ProcessLookupError is suppressed
            \E c \in {"killed", "exited"} :
               cmds' = [cmds EXCEPT ![k] =
                          [@ EXCEPT !.phase = "returned",
                                    !.event = "timeout",
                                    !.child = c,
                                    !.result = CmdResult(137, <<>>, TimeoutBytes,
                                                         TRUE)]]
       ELSE \* NameError leaves run_cmd before send_signal is reached
            cmds' = [cmds EXCEPT ![k] = [@ EXCEPT !.phase = "raised",
                                                  !.event = "timeout",
                                                  !.exc = "NameError"]]
    /\ UNCHANGED besideCmds

\* runner.py line 60: the wait_for around plugin.run(ctx) times out and
\* cancels the body; CancelledError is raised at line 78 of run_cmd, which
\* has no handler for it
KindTimesOut(k) ==
    /\ cmds[k].phase = "communicate"
    /\ cmds' = [cmds EXCEPT ![k] = [@ EXCEPT !.phase = "cancelled",
                                              !.event = "cancel",
                                              !.exc = "CancelledError"]]
    /\ UNCHANGED besideCmds

CmdNext ==
    \/ \E k \in CmdKinds : CmdSpawn(k)
    \/ \E k \in CmdKinds : ChildExits(k)
    \/ \E k \in CmdKinds : OrphanExits(k)
    \/ \E k \in CmdKinds : CommunicateReturns(k)
    \/ \E k \in CmdKinds : CmdTimesOut(k)
    \/ \E k \in CmdKinds : KindTimesOut(k)

CmdSpec == CmdInit /\ [][CmdNext]_vars

\* C15: when wait_for on the child times out, run_cmd sends SIGKILL to the
\* child, swallowing ProcessLookupError, and returns (does not raise)
\* CmdResult(exit_code=137, stdout=b"", stderr=b"timeout", timeout=True).
C15_TimeoutReturns137 ==
    \A k \in CmdKinds :
        cmds[k].event = "timeout"
            => /\ cmds[k].phase = "returned"
               /\ cmds[k].exc = ""
               /\ cmds[k].child \in {"killed", "exited"}
               /\ cmds[k].result = CmdResult(137, <<>>, TimeoutBytes, TRUE)

\* C16: when the per-kind timeout cancels a plugin body that is awaiting
\* run_cmd, the child it spawned is terminated with it: a cancelled call
\* leaves no child running. (The calls of the other kinds are not touched.)
C16_CancellationReachesChild ==
    \A k \in CmdKinds :
        cmds[k].event = "cancel" => cmds[k].child # "running"

\* C17: for a command that exits within its timeout, run_cmd returns the
\* child's exit code with timeout=False, and stdout and stderr are each the
\* first min(length, max_output_bytes) bytes of what the child wrote, the one
\* cut independently of the other.
C17_OutputCap ==
    \A k \in CmdKinds :
        cmds[k].event = "exit"
            => LET cap == IF cmds[k].max_output_bytes.given
                          THEN cmds[k].max_output_bytes.value
                          ELSE 1000000
                   first(data) ==
                       [b \in 1..(IF Len(data) < cap THEN Len(data) ELSE cap)
                           |-> data[b]]
               IN /\ cmds[k].phase = "returned"
                  /\ cmds[k].result.exit_code = cmds[k].returncode
                  /\ cmds[k].result.timeout = FALSE
                  /\ cmds[k].result.stdout = first(cmds[k].wrote_out)
                  /\ cmds[k].result.stderr = first(cmds[k].wrote_err)

\* C17 witness: a child that exited with code 1 wrote two bytes on stdout
\* and one on stderr under a cap of one byte: stdout was cut to its first
\* byte, stderr was returned whole.
C17_OneStreamCut ==
    \E k \in CmdKinds :
        /\ cmds[k].phase = "returned"
        /\ cmds[k].event = "exit"
        /\ cmds[k].returncode = 1
        /\ cmds[k].max_output_bytes = [given |-> TRUE, value |-> 1]
        /\ cmds[k].wrote_out = Written(2)
        /\ cmds[k].wrote_err = Written(1)
        /\ cmds[k].result = CmdResult(1, <<1>>, <<1>>, FALSE)


-----------------------------------------------------------------------------
(* plugins/base.py: the registry on its own *)

\* the plugin classes that modules register
PluginClasses == {"PluginClass", "OtherPlugin"}

\* _REGISTRY = {}
EmptyRegistry == [k \in {} |-> ""]

\* register_plugin without its "already registered" test
register_plugin_overwrite(registry, kind, cls) ==
    [registry |-> [k \in DOMAIN registry \cup {kind} |->
                      IF k = kind THEN cls ELSE registry[k]],
     raised |-> ""]

\* register_plugin(kind)(cls): the registry afterwards, and what was raised
register_plugin(registry, kind, cls) ==
    IF kind \in DOMAIN registry
    THEN [registry |-> registry, raised |-> "RuntimeError"]
    ELSE [registry |-> [k \in DOMAIN registry \cup {kind} |->
                           IF k = kind THEN cls ELSE registry[k]],
          raised |-> ""]

\* make_plugin(kind) up to the call of the factory
make_plugin(registry, kind) ==
    IF kind \notin DOMAIN registry
    THEN [factory |-> "", raised |-> "KeyError"]
    ELSE [factory |-> registry[kind], raised |-> ""]

besideRegistry == <<runnerVars, rawIn, parseOut, cmds>>

RegInit ==
    /\ RunnerAside
    /\ REGISTRY = EmptyRegistry
    /\ regFirst = EmptyRegistry
    /\ regCall = NoCall
    /\ rawIn = EmptyText
    /\ parseOut = NotParsed
    /\ cmds = <<>>

\* a module applies @register_plugin(kind) to a class
RegisterPlugin(kind, cls) ==
    /\ LET r == register_plugin(REGISTRY, kind, cls)
       IN /\ REGISTRY' = r.registry
          /\ regCall' = [op |-> "register_plugin", kind |-> kind, cls |-> cls,
                         outcome |-> r.raised]
    /\ regFirst' = IF kind \in DOMAIN regFirst THEN regFirst
                   ELSE [k \in DOMAIN regFirst \cup {kind} |->
                            IF k = kind THEN cls ELSE regFirst[k]]
    /\ UNCHANGED besideRegistry

\* make_plugin(kind) is called
MakePlugin(kind) ==
    /\ LET m == make_plugin(REGISTRY, kind)
       IN regCall' = [op |-> "make_plugin", kind |-> kind, cls |-> m.factory,
                      outcome |-> m.raised]
    /\ UNCHANGED <<REGISTRY, regFirst>>
    /\ UNCHANGED besideRegistry

\* available_kinds() is called
AvailableKinds ==
    /\ regCall' = [op |-> "available_kinds", kind |-> "", cls |-> "",
                   outcome |-> ""]
    /\ UNCHANGED <<REGISTRY, regFirst>>
    /\ UNCHANGED besideRegistry

RegNext ==
    \/ \E kind \in Kinds, cls \in PluginClasses : RegisterPlugin(kind, cls)
    \/ \E kind \in Kinds : MakePlugin(kind)
    \/ AvailableKinds

RegSpec == RegInit /\ [][RegNext]_vars

\* the alphabetical rank of the kind names
KindRank ==
    [k \in Kinds |->
        CASE k = BogusKind -> 1
          [] k = KIND_COMPLIANCE -> 2
          [] k = KIND_PERFORMANCE -> 3
          [] k = KIND_SECURITY_ADV -> 4
          [] k = KIND_SECURITY_BASIC -> 5
          [] k = KIND_STABILITY -> 6]

\* C18: after any sequence of register_plugin calls each registered kind
\* maps to the factory of its first registration; registering a kind that
\* is already registered raises and leaves the registry as it was;
\* available_kinds() is exactly the registered kinds, sorted and without
\* repeats; make_plugin(kind) fails with the not-found error exactly when
\* kind is not registered.
C18_RegistryIntegrity ==
    [][LET c == regCall'
           kinds == available_kinds(REGISTRY')
       IN /\ REGISTRY' = regFirst'
          /\ c.op = "register_plugin"
                => /\ c.outcome = "RuntimeError" <=> c.kind \in DOMAIN REGISTRY
                   /\ c.outcome = "RuntimeError" => REGISTRY' = REGISTRY
                   /\ c.outcome = ""
                         => /\ DOMAIN REGISTRY' = DOMAIN REGISTRY \cup {c.kind}
                            /\ REGISTRY'[c.kind] = c.cls
                            /\ \A k \in DOMAIN REGISTRY : REGISTRY'[k] = REGISTRY[k]
          /\ Range(kinds) = DOMAIN REGISTRY'
          /\ \A a, b \in 1..Len(kinds) :
                a < b => KindRank[kinds[a]] < KindRank[kinds[b]]
          /\ c.op = "make_plugin"
                => /\ c.outcome = "KeyError" <=> c.kind \notin DOMAIN REGISTRY
                   /\ c.outcome = "" => c.cls = regFirst[c.kind]]_vars

\* C18 witness: OtherPlugin was registered under a kind that PluginClass
\* already held; the call raised and the kind still maps to PluginClass,
\* beside other registered kinds.
C18_DuplicateRefused ==
    /\ regCall.op = "register_plugin"
    /\ regCall.outcome = "RuntimeError"
    /\ regCall.cls = "OtherPlugin"
    /\ regCall.kind \in DOMAIN REGISTRY
    /\ REGISTRY[regCall.kind] = "PluginClass"
    /\ Cardinality(DOMAIN REGISTRY) >= 3


-----------------------------------------------------------------------------
(* core/parsers.py: parse_config on its own *)

\* the texts handed to parse_config: the empty and the blank text, and URIs
\* of every scheme spelling with good and bad ids, hosts and ports, with and
\* without surrounding blanks
ParseInputs ==
    {EmptyText, [EmptyText EXCEPT !.pad = TRUE]} \cup
    {[Uri(scheme, id, host, port, security, "ws", "/ws")
        EXCEPT !.pad = pad, !.b64json = b64] :
        scheme \in {"vless", "VLESS", "vmess", "VMESS", "http"},
        id \in {GoodUuid, ZeroUuid, "not-a-uuid", ""},
        host \in {"example.com", "bad host"},
        port \in {"", "0", "1", "443", "65535", "65536", "abc"},
        security \in {"", "tls"},
        pad \in BOOLEAN,
        b64 \in BOOLEAN}

besideParser == <<runnerVars, REGISTRY, regFirst, regCall, cmds>>

ParseInit ==
    /\ RunnerAside
    /\ REGISTRY = [k \in CanonicalKinds |-> "PluginClass"]
    /\ regFirst = REGISTRY
    /\ regCall = NoCall
    /\ rawIn \in ParseInputs
    /\ parseOut = NotParsed
    /\ cmds = <<>>

\* parse_config(rawIn) is called
ParseConfig ==
    /\ parseOut = NotParsed
    /\ parseOut' = parse_config(rawIn)
    /\ UNCHANGED rawIn
    /\ UNCHANGED besideParser

ParseNext == ParseConfig

ParseSpec == ParseInit /\ [][ParseNext]_vars

\* C19: parse_config fails with a parse error, and returns no descriptor,
\* for every text that is empty or blank, whose scheme is neither vless nor
\* vmess (in any letter case), whose id is not a UUID, or whose port is
\* missing, not a number or outside 1..65535; the descriptor of every
\* accepted text has a port in 1..65535 and a UUID as id.
C19_ParserRejection ==
    parseOut # NotParsed
        => /\ (\/ rawIn.scheme = ""
                \/ rawIn.scheme \notin {"vless", "VLESS", "vmess", "VMESS"}
                \/ rawIn.id \notin UuidTexts
                \/ rawIn.port = ""
                \/ rawIn.port \notin DOMAIN PortValue
                \/ PortValue[rawIn.port] < 1
                \/ PortValue[rawIn.port] > 65535)
                => /\ ~parseOut.ok
                   /\ parseOut.error # ""
                   /\ parseOut.config = NoConfig
           /\ parseOut.ok
                => /\ parseOut.config.port \in 1..65535
                   /\ parseOut.config.id \in UuidTexts
                   /\ parseOut.config.id = rawIn.id
                   /\ parseOut.config.port = PortValue[rawIn.port]

\* C19 witness: an upper-case VMESS text with a good id and host and no
\* port was refused.
C19_MissingPortRefused ==
    /\ parseOut # NotParsed
    /\ rawIn.scheme = "VMESS"
    /\ rawIn.b64json
    /\ rawIn.id = GoodUuid
    /\ rawIn.host = "example.com"
    /\ rawIn.port = ""
    /\ ~parseOut.ok
    /\ parseOut.config = NoConfig


-----------------------------------------------------------------------------
(* core/runner.py: a plugin that cannot be made *)

\* C20: when make_plugin raises for one surviving kind, the failure stays
\* with that kind: the call does not raise, no other kind is cancelled, and
\* the answer holds a failed outcome for the kind beside the outcomes of the
\* other kinds, with errors empty.
C20_InstantiationContained ==
    \A i \in 1..Len(tasks) :
        tasks[i].phase = "failed"
            => /\ pc # "raised"
               /\ \A j \in 1..Len(tasks) : tasks[j].phase # "cancelled"
               /\ pc = "done"
                     => /\ tasks[i].kind \in DOMAIN response.results
                        /\ ~response.results[tasks[i].kind].ok
                        /\ DOMAIN response.results = SurvivingKinds
                        /\ response.errors = <<>>


-----------------------------------------------------------------------------
(* core/runner.py: the slot and the timeout budget *)

\* C21: a kind's timeout budget starts only once it holds a slot: a kind is
\* recorded as "timeout" only from a started plugin body, never while it
\* waits for a slot; every way a plugin body ends (result, timeout,
\* exception) gives its slot back; and every kind waiting for a slot
\* eventually has its plugin body started.
C21_BudgetStartsAtSlot ==
    /\ [][\A i \in 1..Len(tasks) :
            /\ (tasks[i].phase = "queued" /\ i \in 1..Len(tasks'))
                  => /\ tasks'[i].event # "timeout"
                     /\ tasks'[i].result.error # "timeout"
            /\ (tasks[i].phase = "running" /\ i \in 1..Len(tasks')
                  /\ tasks'[i].phase = "done")
                  => sem' = sem + 1]_vars
    /\ \A i \in Positions :
          (i \in 1..Len(tasks) /\ tasks[i].phase = "queued")
             ~> (i \in 1..Len(tasks) /\ tasks[i].phase \in {"running", "done"})

=============================================================================
